---- MODULE Spec2Model ----
(***************************************************************************)
(* Log collection and analysis subsystem of the debug-mode plugin:         *)
(*   scripts/collector.mjs     the ingestion server (POST /ingest)          *)
(*   scripts/clear-logs.mjs    truncation of the entry store                *)
(*   scripts/tail-logs.mjs     the tailer          (src/unnamed/part_001)   *)
(*   scripts/analyze-logs.mjs  the analyzer        (src/unnamed/part_000)   *)
(*                                                                         *)
(* Text (request bodies, the store file, the tailer's buffer) is a         *)
(* sequence of characters.  One character stands for one lexical unit of   *)
(* the NDJSON text: an opening or closing brace, a newline, one            *)
(* "key":value member, or a unit of text that is not part of an object.    *)
(* A character has a length in UTF-16 code units of 1 and a length in      *)
(* UTF-8 bytes of 1 or 2.                                                  *)
(***************************************************************************)
EXTENDS Integers, Sequences, FiniteSets, TLC

(***************************************************************************)
(* Bounds of the model.                                                    *)
(***************************************************************************)
MaxReq == 2
MaxClock == 2
MaxAppends == 3
MaxClears == 2
MaxLines == 3
MaxRuns == 2
MaxCalls == 3
MaxParts == 2

(***************************************************************************)
(* JavaScript values that occur in the fields of an entry.                 *)
(***************************************************************************)
Undef == [t |-> "undefined", s |-> "", n |-> 0]
Null == [t |-> "null", s |-> "", n |-> 0]
Num(n) == [t |-> "number", s |-> "", n |-> n]
Str(s) == [t |-> "string", s |-> s, n |-> 0]
Obj(s) == [t |-> "object", s |-> s, n |-> 0]

\* !v
Falsy(v) ==
  \/ v.t \in {"undefined", "null"}
  \/ v.t = "number" /\ v.n = 0
  \/ v.t = "string" /\ v.s = ""

Fields == <<"location", "hypothesisId", "message", "data", "level", "timestamp">>

FieldSet == {Fields[i] : i \in 1..Len(Fields)}

NoEntry == [f \in FieldSet |-> Undef]

\* no append in progress
NoPending == [rest |-> <<>>, e |-> NoEntry]

\* strings whose UTF-8 encoding is longer than their UTF-16 encoding
NonAscii == {"é"}

(***************************************************************************)
(* Characters of text.                                                     *)
(***************************************************************************)
Ch(c, f, v) == [c |-> c, f |-> f, v |-> v]
Open == Ch("{", "", Undef)
Close == Ch("}", "", Undef)
Nl == Ch("\n", "", Undef)
Junk == Ch("junk", "", Undef)
NullLit == Ch("null", "", Undef)
NumLit == Ch("number", "", Undef)
StrLit == Ch("string", "", Undef)
ArrLit == Ch("array", "", Undef)
Member(f, v) == Ch("member", f, v)

\* Buffer.byteLength(ch, 'utf8')
ByteLen(ch) == IF ch.v.t = "string" /\ ch.v.s \in NonAscii THEN 2 ELSE 1

RECURSIVE ByteSize(_)
ByteSize(text) ==
  IF text = <<>> THEN 0 ELSE ByteLen(Head(text)) + ByteSize(Tail(text))

\* String.prototype.slice(start) with start >= 0, in UTF-16 code units
Slice(text, start) ==
  IF start >= Len(text) THEN <<>> ELSE SubSeq(text, start + 1, Len(text))

\* String.prototype.split('\n')
RECURSIVE SplitFrom(_, _, _)
SplitFrom(text, i, cur) ==
  IF i > Len(text) THEN <<cur>>
  ELSE IF text[i] = Nl THEN <<cur>> \o SplitFrom(text, i + 1, <<>>)
  ELSE SplitFrom(text, i + 1, Append(cur, text[i]))

Split(text) == SplitFrom(text, 1, <<>>)

(***************************************************************************)
(* JSON.stringify of an object with the fields of an entry: members whose  *)
(* value is undefined are left out.                                        *)
(***************************************************************************)
RECURSIVE MembersFrom(_, _)
MembersFrom(e, i) ==
  IF i > Len(Fields) THEN <<>>
  ELSE (IF e[Fields[i]] = Undef THEN <<>> ELSE <<Member(Fields[i], e[Fields[i]])>>)
       \o MembersFrom(e, i + 1)

JSONstringify(e) == <<Open>> \o MembersFrom(e, 1) \o <<Close>>

(***************************************************************************)
(* JSON.parse: ok = FALSE when it throws; otherwise k is the kind of the   *)
(* value and e its members when it is an object.                           *)
(***************************************************************************)
IsObjectText(text) ==
  /\ Len(text) >= 2
  /\ text[1] = Open
  /\ text[Len(text)] = Close
  /\ \A i \in 2..(Len(text) - 1) : text[i].c = "member"
  /\ \A i, j \in 2..(Len(text) - 1) : text[i].f = text[j].f => i = j

MemberValue(text, f) ==
  IF \E i \in 1..Len(text) : text[i].c = "member" /\ text[i].f = f
  THEN (CHOOSE ch \in {text[i] : i \in 1..Len(text)} : ch.c = "member" /\ ch.f = f).v
  ELSE Undef

JSONparse(text) ==
  IF IsObjectText(text)
  THEN [ok |-> TRUE, k |-> "object", e |-> [f \in FieldSet |-> MemberValue(text, f)]]
  ELSE IF text \in {<<NullLit>>, <<NumLit>>, <<StrLit>>, <<ArrLit>>}
  THEN [ok |-> TRUE, k |-> text[1].c, e |-> NoEntry]
  ELSE [ok |-> FALSE, k |-> "undefined", e |-> NoEntry]

(***************************************************************************)
(* State.                                                                  *)
(*   storeExists, store   .debug/debug.log: whether it exists, its text    *)
(*   readable             whether the store, if it exists, can be read     *)
(*   pending              the append in progress: the part of the line     *)
(*                        not yet written, and the entry                   *)
(*   clock                the last value Date.now() returned               *)
(*   reqs                 the POST /ingest requests of the server          *)
(*   options, tpc, lastSize, buffer, currentSize     the tailer            *)
(*   emitted, notices     what the tailer has printed                      *)
(*   appended, epoch      history of the store: the entries appended and   *)
(*                        the number of truncations                        *)
(*   cleared              what the runs of clear-logs.mjs printed          *)
(*   argv, report, prevReport, runs    the analyzer and its last reports   *)
(*   marker               .debug/collector.pid: the pid it holds           *)
(*   port                 who holds the TCP port of the server             *)
(*   procs                the collector processes start-collector spawned  *)
(*   calls                the runs of start-collector and stop-collector   *)
(***************************************************************************)
VARIABLES storeExists, store, readable, pending, clock, reqs,
          tpc, lastSize, buffer, currentSize, emitted, notices,
          appended, epoch, cleared, options,
          argv, report, prevReport, runs,
          marker, port, procs, calls

storeVars == <<storeExists, store, readable, pending>>
tailVars == <<options, tpc, lastSize, buffer, currentSize, emitted, notices>>
histVars == <<appended, epoch, cleared>>
analyzeVars == <<argv, report, prevReport, runs>>
lifeVars == <<marker, port, procs, calls>>
vars == <<storeExists, store, readable, pending, clock, reqs, tailVars, histVars, analyzeVars, lifeVars>>

Min(a, b) == IF a < b THEN a ELSE b

\* the values Date.now() can return: time does not run backwards
DateNow == clock..Min(clock + 1, MaxClock)

(***************************************************************************)
(* The liveness marker, the collector processes and the runs of the        *)
(* start/stop scripts.  Time in them is counted in seconds.                *)
(***************************************************************************)
\* waitForStart(timeoutMs = 3000), waitForTermination(pid, timeoutMs = 3000)
\* and the setTimeout(() => process.exit(1), 5000) of shutdown
StartTimeout == 3
StopTimeout == 3
ForceExitAfter == 5

\* the process spawned by the c-th run has pid c
Pids == 1..MaxCalls

\* no PID file; and the pid of a process that ended before the model starts
NoMarker == 0
StalePid == MaxCalls + 1

NoProc == [st |-> "none", sig |-> FALSE, grace |-> 0]

\* a process that has ended; sig: a signal was sent to it
Exited(sig) == [st |-> "exited", sig |-> sig, grace |-> 0]

\* a run of a script: its place, the time it has waited, what it reported;
\* listening: the collector of this directory that listened when it began;
\* exitedInTime: the process to stop ended before the wait was over
NoCall == [kind |-> "none", pc |-> "none", elapsed |-> 0, polled |-> FALSE,
           target |-> 0, res |-> "", pid |-> 0, kill |-> FALSE,
           listening |-> 0, exitedInTime |-> FALSE]

InitNoLifecycle ==
  /\ marker = NoMarker
  /\ port = "free"
  /\ procs = [p \in Pids |-> NoProc]
  /\ calls = [c \in 1..MaxCalls |-> NoCall]

(***************************************************************************)
(* The ingestion server, scripts/collector.mjs.                            *)
(***************************************************************************)
\* parseBody: the promise is rejected (ok = FALSE) when JSON.parse throws;
\* an empty body resolves to null
parseBody(body) ==
  IF body = <<>> THEN [ok |-> TRUE, k |-> "null", e |-> NoEntry]
  ELSE JSONparse(body)

NoError == "null"

validateEntry_NoHypothesisId(v) ==
  IF v.k = "null" \/ v.k \notin {"object", "array"} THEN "Entry must be a JSON object"
  ELSE IF Falsy(v.e.location) \/ v.e.location.t # "string"
  THEN "Missing required field: location"
  ELSE IF Falsy(v.e.message) \/ v.e.message.t # "string"
  THEN "Missing required field: message"
  ELSE NoError

\* typeof v is 'object' for objects, arrays and null; an array has none of
\* the fields
validateEntry(v) ==
  IF v.k = "null" \/ v.k \notin {"object", "array"} THEN "Entry must be a JSON object"
  ELSE IF Falsy(v.e.location) \/ v.e.location.t # "string"
  THEN "Missing required field: location"
  ELSE IF Falsy(v.e.message) \/ v.e.message.t # "string"
  THEN "Missing required field: message"
  ELSE IF Falsy(v.e.hypothesisId) \/ v.e.hypothesisId.t # "string"
  THEN "Missing required field: hypothesisId"
  ELSE NoError

writeLogEntry_Overwrite(content, entry, t) ==
  JSONstringify(IF Falsy(entry.timestamp)
                THEN [entry EXCEPT !["timestamp"] = Num(t)]
                ELSE entry)
    \o <<Nl>>

writeLogEntry_RequiredOnly(content, entry, t) ==
  content \o JSONstringify([entry EXCEPT !["timestamp"] = IF Falsy(@) THEN Num(t) ELSE @,
                                         !["data"] = Undef, !["level"] = Undef])
          \o <<Nl>>

writeLogEntry_NoNewline(content, entry, t) ==
  content \o JSONstringify(IF Falsy(entry.timestamp)
                           THEN [entry EXCEPT !["timestamp"] = Num(t)]
                           ELSE entry)

\* the content of the store after writeLogEntry(entry), t being Date.now()
writeLogEntry(content, entry, t) ==
  content \o JSONstringify(IF Falsy(entry.timestamp)
                           THEN [entry EXCEPT !["timestamp"] = Num(t)]
                           ELSE entry)
          \o <<Nl>>

\* corsHeaders: the three Access-Control-Allow-* headers
corsHeaders == {"Access-Control-Allow-Origin: *",
                "Access-Control-Allow-Methods: GET, POST, OPTIONS",
                "Access-Control-Allow-Headers: Content-Type"}

\* res.writeHead(status, headers)
writeHead(status, headers) == [status |-> status, error |-> "", headers |-> headers]

\* sendJson(res, status, {status: ..., error})
Response(status, error) ==
  [status |-> status, error |-> error,
   headers |-> {"Content-Type: application/json"} \cup corsHeaders]

NoResponse == [status |-> 0, error |-> "", headers |-> {}]

\* the outcomes of appendFileSync: the line is appended, or the call throws
\* (store unwritable, state directory missing)
AppendOutcomes == {"ok", "EACCES"}

handleIngest_Catch500(body, io) ==
  LET p == parseBody(body) IN
  IF ~p.ok THEN Response(500, "Invalid JSON")
  ELSE IF validateEntry(p) # NoError THEN Response(400, validateEntry(p))
  ELSE IF io # "ok" THEN Response(400, io)
  ELSE Response(200, "")

handleIngest_OkOnFailure(body, io) ==
  LET p == parseBody(body) IN
  IF ~p.ok THEN Response(400, "Invalid JSON")
  ELSE IF validateEntry(p) # NoError THEN Response(400, validateEntry(p))
  ELSE Response(200, "")

\* the response of the POST /ingest branch of handleRequest to a body, io
\* being the outcome of appendFileSync if writeLogEntry is reached: what it
\* throws lands in the catch of the branch, as a rejected parseBody does
handleIngest(body, io) ==
  LET p == parseBody(body) IN
  IF ~p.ok THEN Response(400, "Invalid JSON")
  ELSE IF validateEntry(p) # NoError THEN Response(400, validateEntry(p))
  ELSE IF io # "ok" THEN Response(400, io)
  ELSE Response(200, "")

\* the 405 answer of handleRequest
MethodNotAllowed(path) ==
  writeHead(405, {IF path = "/ingest" THEN "Allow: POST, OPTIONS" ELSE "Allow: GET, OPTIONS"}
                 \cup corsHeaders)

handleRequest_NoCorsOn404(method, path, body, io) ==
  IF path = "//" THEN Response(500, "Internal server error")
  ELSE IF method = "OPTIONS" THEN writeHead(204, corsHeaders)
  ELSE IF method = "GET" /\ path = "/"
  THEN writeHead(200, {"Content-Type: text/html"} \cup corsHeaders)
  ELSE IF method = "GET" /\ path = "/health" THEN Response(200, "")
  ELSE IF method = "POST" /\ path = "/ingest" THEN handleIngest(body, io)
  ELSE IF path \in {"/ingest", "/health"} THEN MethodNotAllowed(path)
  ELSE writeHead(404, {})

\* handleRequest with the catch of createServer: the answer to a request.
\* new URL throws on the request target "//", which is answered 500
handleRequest(method, path, body, io) ==
  IF path = "//" THEN Response(500, "Internal server error")
  ELSE IF method = "OPTIONS" THEN writeHead(204, corsHeaders)
  ELSE IF method = "GET" /\ path = "/"
  THEN writeHead(200, {"Content-Type: text/html"} \cup corsHeaders)
  ELSE IF method = "GET" /\ path = "/health" THEN Response(200, "")
  ELSE IF method = "POST" /\ path = "/ingest" THEN handleIngest(body, io)
  ELSE IF path \in {"/ingest", "/health"} THEN MethodNotAllowed(path)
  ELSE writeHead(404, corsHeaders)

\* io: the outcome of the appendFileSync call of the request, if it made one
NoReq == [st |-> "none", method |-> "", path |-> "", body |-> <<>>,
          res |-> NoResponse, conc |-> FALSE, io |-> "none"]

(***************************************************************************)
(* The analyzer, scripts/analyze-logs.mjs.                                 *)
(***************************************************************************)
\* parseArgs: options.hypothesis is null unless --hypothesis or -h is given,
\* and then args[++i], which is undefined when the flag is the last argument
RECURSIVE parseArgsFrom(_, _, _)
parseArgsFrom(args, i, opts) ==
  IF i > Len(args) THEN opts
  ELSE IF args[i] = "--json"
  THEN parseArgsFrom(args, i + 1, [opts EXCEPT !.json = TRUE])
  ELSE IF args[i] \in {"--hypothesis", "-h"}
  THEN parseArgsFrom(args, i + 2,
         [opts EXCEPT !.hypothesis =
            IF i + 1 <= Len(args) THEN Str(args[i + 1]) ELSE Undef])
  ELSE parseArgsFrom(args, i + 1, opts)

parseArgs(args) == parseArgsFrom(args, 1, [json |-> FALSE, hypothesis |-> Null])

\* String.prototype.trim: newlines are the only white space of the model
RECURSIVE TrimLeft(_)
TrimLeft(text) ==
  IF text # <<>> /\ Head(text) = Nl THEN TrimLeft(Tail(text)) ELSE text

RECURSIVE TrimRight(_)
TrimRight(text) ==
  IF text # <<>> /\ text[Len(text)] = Nl
  THEN TrimRight(SubSeq(text, 1, Len(text) - 1))
  ELSE text

Trim(text) == TrimLeft(TrimRight(text))

RECURSIVE ParsedLines(_, _)
ParsedLines(lines, i) ==
  IF i > Len(lines) THEN <<>>
  ELSE (IF Trim(lines[i]) # <<>> /\ JSONparse(lines[i]).ok
        THEN <<JSONparse(lines[i])>>
        ELSE <<>>) \o ParsedLines(lines, i + 1)

\* parseLogFile: the values of the lines of the store that JSON.parse accepts
parseLogFile(exists, content) ==
  IF ~exists THEN <<>> ELSE ParsedLines(Split(Trim(content)), 1)

NaN == [t |-> "NaN", s |-> "", n |-> 0]

\* a < b: false unless both are numbers (NaN compares false)
Less(a, b) == a.t = "number" /\ b.t = "number" /\ a.n < b.n

\* a - b
Minus(a, b) == IF a.t = "number" /\ b.t = "number" THEN Num(a.n - b.n) ELSE NaN

\* the property key a value is converted to
Key(v) ==
  CASE v.t = "string" -> v.s
    [] v.t = "number" -> ToString(v.n)
    [] v.t = "object" -> "[object Object]"
    [] OTHER -> v.t

EmptyMap == [k \in {} |-> 0]

Get(m, k) == IF k \in DOMAIN m THEN m[k] ELSE 0

Put(m, k, v) == [x \in (DOMAIN m) \cup {k} |-> IF x = k THEN v ELSE m[x]]

NewAnalysis ==
  [total |-> 0,
   timeRange |-> [first |-> Null, last |-> Null, duration |-> Num(0)],
   hypotheses |-> EmptyMap,
   errors |-> <<>>,
   thrown |-> FALSE]

NewGroup(ts) ==
  [count |-> 0, levels |-> EmptyMap, locations |-> EmptyMap, errors |-> <<>>,
   firstTimestamp |-> ts, lastTimestamp |-> ts]

ErrorInfo(e, ts) ==
  [timestamp |-> ts, location |-> e.location, message |-> e.message, data |-> e.data]

Tagged(info, hId) ==
  [timestamp |-> info.timestamp, location |-> info.location, message |-> info.message,
   data |-> info.data, hypothesisId |-> hId]

Aggregate_LocationOnce(a, e, now) ==
  LET ts == IF Falsy(e.timestamp) THEN Num(now) ELSE e.timestamp
      hId == Key(e.hypothesisId)
      h0 == IF hId \in DOMAIN a.hypotheses THEN a.hypotheses[hId] ELSE NewGroup(ts)
      level == IF Falsy(e.level) THEN Str("info") ELSE e.level
      isError == level = Str("error")
      h == [count |-> h0.count + 1,
            levels |-> Put(h0.levels, Key(level), Get(h0.levels, Key(level)) + 1),
            locations |-> Put(h0.locations, Key(e.location), 1),
            errors |-> IF isError THEN Append(h0.errors, ErrorInfo(e, ts)) ELSE h0.errors,
            firstTimestamp |-> IF Less(ts, h0.firstTimestamp) THEN ts ELSE h0.firstTimestamp,
            lastTimestamp |-> IF Less(h0.lastTimestamp, ts) THEN ts ELSE h0.lastTimestamp]
  IN [total |-> a.total + 1,
      timeRange |->
        [first |-> IF Falsy(a.timeRange.first) \/ Less(ts, a.timeRange.first)
                   THEN ts ELSE a.timeRange.first,
         last |-> IF Falsy(a.timeRange.last) \/ Less(a.timeRange.last, ts)
                  THEN ts ELSE a.timeRange.last,
         duration |-> a.timeRange.duration],
      hypotheses |-> Put(a.hypotheses, hId, h),
      errors |-> IF isError
                 THEN Append(a.errors, Tagged(ErrorInfo(e, ts), e.hypothesisId))
                 ELSE a.errors,
      thrown |-> FALSE]

Aggregate_NoDefaultLevel(a, e, now) ==
  LET ts == IF Falsy(e.timestamp) THEN Num(now) ELSE e.timestamp
      hId == Key(e.hypothesisId)
      h0 == IF hId \in DOMAIN a.hypotheses THEN a.hypotheses[hId] ELSE NewGroup(ts)
      level == e.level
      isError == level = Str("error")
      h == [count |-> h0.count + 1,
            levels |-> Put(h0.levels, Key(level), Get(h0.levels, Key(level)) + 1),
            locations |-> Put(h0.locations, Key(e.location),
                              Get(h0.locations, Key(e.location)) + 1),
            errors |-> IF isError THEN Append(h0.errors, ErrorInfo(e, ts)) ELSE h0.errors,
            firstTimestamp |-> IF Less(ts, h0.firstTimestamp) THEN ts ELSE h0.firstTimestamp,
            lastTimestamp |-> IF Less(h0.lastTimestamp, ts) THEN ts ELSE h0.lastTimestamp]
  IN [total |-> a.total + 1,
      timeRange |->
        [first |-> IF Falsy(a.timeRange.first) \/ Less(ts, a.timeRange.first)
                   THEN ts ELSE a.timeRange.first,
         last |-> IF Falsy(a.timeRange.last) \/ Less(a.timeRange.last, ts)
                  THEN ts ELSE a.timeRange.last,
         duration |-> a.timeRange.duration],
      hypotheses |-> Put(a.hypotheses, hId, h),
      errors |-> IF isError
                 THEN Append(a.errors, Tagged(ErrorInfo(e, ts), e.hypothesisId))
                 ELSE a.errors,
      thrown |-> FALSE]

\* the body of the loop of analyzeEntries for an entry that passes the filter
Aggregate(a, e, now) ==
  LET ts == IF Falsy(e.timestamp) THEN Num(now) ELSE e.timestamp
      hId == Key(e.hypothesisId)
      h0 == IF hId \in DOMAIN a.hypotheses THEN a.hypotheses[hId] ELSE NewGroup(ts)
      level == IF Falsy(e.level) THEN Str("info") ELSE e.level
      isError == level = Str("error")
      h == [count |-> h0.count + 1,
            levels |-> Put(h0.levels, Key(level), Get(h0.levels, Key(level)) + 1),
            locations |-> Put(h0.locations, Key(e.location),
                              Get(h0.locations, Key(e.location)) + 1),
            errors |-> IF isError THEN Append(h0.errors, ErrorInfo(e, ts)) ELSE h0.errors,
            firstTimestamp |-> IF Less(ts, h0.firstTimestamp) THEN ts ELSE h0.firstTimestamp,
            lastTimestamp |-> IF Less(h0.lastTimestamp, ts) THEN ts ELSE h0.lastTimestamp]
  IN [total |-> a.total + 1,
      timeRange |->
        [first |-> IF Falsy(a.timeRange.first) \/ Less(ts, a.timeRange.first)
                   THEN ts ELSE a.timeRange.first,
         last |-> IF Falsy(a.timeRange.last) \/ Less(a.timeRange.last, ts)
                  THEN ts ELSE a.timeRange.last,
         duration |-> a.timeRange.duration],
      hypotheses |-> Put(a.hypotheses, hId, h),
      errors |-> IF isError
                 THEN Append(a.errors, Tagged(ErrorInfo(e, ts), e.hypothesisId))
                 ELSE a.errors,
      thrown |-> FALSE]

\* the loop of analyzeEntries from entry i on; reading a property of null throws
RECURSIVE AnalyzeFrom(_, _, _, _, _)
AnalyzeFrom(a, entries, i, filterHypothesis, now) ==
  IF i > Len(entries) THEN a
  ELSE IF entries[i].k = "null" THEN [a EXCEPT !.thrown = TRUE]
  ELSE IF ~Falsy(filterHypothesis) /\ entries[i].e.hypothesisId # filterHypothesis
  THEN AnalyzeFrom(a, entries, i + 1, filterHypothesis, now)
  ELSE AnalyzeFrom(Aggregate(a, entries[i].e, now), entries, i + 1, filterHypothesis, now)

analyzeEntries(entries, filterHypothesis, now) ==
  LET a == AnalyzeFrom(NewAnalysis, entries, 1, filterHypothesis, now)
  IN IF ~a.thrown /\ ~Falsy(a.timeRange.first) /\ ~Falsy(a.timeRange.last)
     THEN [a EXCEPT !.timeRange.duration = Minus(a.timeRange.last, a.timeRange.first)]
     ELSE a

(***************************************************************************)
(* outputText: the summary the analyzer prints after the groups.           *)
(***************************************************************************)
\* the keys of the model in the order Array.prototype.sort gives them
KeyOrder == <<"A", "B">>

\* Object.keys(analysis.hypotheses).sort()
sortedHypotheses(analysis) ==
  SelectSeq(KeyOrder, LAMBDA k : k \in DOMAIN analysis.hypotheses)

\* errorsByH after the errors from i on are counted: its entries in the order
\* the keys were first set
RECURSIVE errorsByH(_, _, _)
errorsByH(errors, i, acc) ==
  IF i > Len(errors) THEN acc
  ELSE LET k == Key(errors[i].hypothesisId)
           at == {j \in 1..Len(acc) : acc[j].h = k}
       IN IF at = {}
          THEN errorsByH(errors, i + 1, Append(acc, [h |-> k, n |-> 1]))
          ELSE errorsByH(errors, i + 1,
                 [j \in 1..Len(acc) |-> IF j \in at THEN [h |-> k, n |-> acc[j].n + 1]
                                        ELSE acc[j]])

\* x put into a list sorted by (a, b) => b[1] - a[1], behind its equals
InsertByCount(sorted, x) ==
  LET before == Cardinality({j \in 1..Len(sorted) : sorted[j].n >= x.n})
  IN SubSeq(sorted, 1, before) \o <<x>> \o SubSeq(sorted, before + 1, Len(sorted))

\* Object.entries(errorsByH).sort((a, b) => b[1] - a[1]): the sort is stable
RECURSIVE sortedByErrors(_, _, _)
sortedByErrors(entries, i, sorted) ==
  IF i > Len(entries) THEN sorted
  ELSE sortedByErrors(entries, i + 1, InsertByCount(sorted, entries[i]))

NoSummary == [kind |-> "none", topH |-> "", topN |-> 0, noErrors |-> <<>>]

outputText_LeastErrors(analysis) ==
  IF Len(analysis.errors) > 0
  THEN LET byH == errorsByH(analysis.errors, 1, <<>>)
           sorted == sortedByErrors(byH, 1, <<>>)
       IN [kind |-> "root", topH |-> sorted[Len(sorted)].h, topN |-> sorted[Len(sorted)].n,
           noErrors |-> SelectSeq(sortedHypotheses(analysis),
                                  LAMBDA k : \A j \in 1..Len(byH) : byH[j].h # k)]
  ELSE IF analysis.total > 0
  THEN [NoSummary EXCEPT !.kind = "no errors"]
  ELSE [NoSummary EXCEPT !.kind = "no entries"]

\* the summary of outputText: the hypothesis with the most errors and the
\* hypotheses without errors, or one of the two notes
outputText(analysis) ==
  IF Len(analysis.errors) > 0
  THEN LET byH == errorsByH(analysis.errors, 1, <<>>)
           sorted == sortedByErrors(byH, 1, <<>>)
       IN [kind |-> "root", topH |-> sorted[1].h, topN |-> sorted[1].n,
           noErrors |-> SelectSeq(sortedHypotheses(analysis),
                                  LAMBDA k : \A j \in 1..Len(byH) : byH[j].h # k)]
  ELSE IF analysis.total > 0
  THEN [NoSummary EXCEPT !.kind = "no errors"]
  ELSE [NoSummary EXCEPT !.kind = "no entries"]

\* what main prints of an analysis: JSON, or the text with its summary;
\* nothing when analyzeEntries threw
Output(opts, analysis) ==
  IF analysis.thrown THEN NoSummary
  ELSE IF opts.json THEN [NoSummary EXCEPT !.kind = "json"]
  ELSE outputText(analysis)

(***************************************************************************)
(* The request bodies clients send.                                        *)
(***************************************************************************)
Loc == Str("a.js:f")
Msg == Str("entry")

Entry(h, d, l, ts) ==
  [location |-> Loc, hypothesisId |-> Str(h), message |-> Msg,
   data |-> d, level |-> l, timestamp |-> ts]

ValidEntries ==
  { Entry("A", Undef, Undef, Undef),
    Entry("B", Obj("d"), Str("error"), Num(1)),
    Entry("A", Null, Str("info"), Num(0)),
    Entry("B", Str("é"), Str("warn"), Str("x")) }

BadValues == {Undef, Str(""), Num(7)}

BadEntries ==
  { [Entry("A", Undef, Undef, Undef) EXCEPT ![f] = b] :
      f \in {"location", "message", "hypothesisId"}, b \in BadValues }

NonObjectBodies == {<<>>, <<Junk>>, <<NullLit>>, <<NumLit>>, <<StrLit>>, <<ArrLit>>}

Bodies == {JSONstringify(e) : e \in ValidEntries \cup BadEntries} \cup NonObjectBodies

(***************************************************************************)
(* POST /ingest: handleRequest up to the await of parseBody.               *)
(***************************************************************************)
IngestBegin(r) ==
  /\ reqs[r].st = "none"
  /\ \A q \in 1..(r - 1) : reqs[q].st # "none"
  /\ \E body \in Bodies :
       reqs' = [q \in 1..MaxReq |->
                  IF q = r
                  THEN [NoReq EXCEPT !.st = "reading", !.method = "POST",
                                     !.path = "/ingest", !.body = body,
                                     !.conc = \E o \in 1..MaxReq : reqs[o].st = "reading"]
                  ELSE IF reqs[q].st = "reading"
                  THEN [reqs[q] EXCEPT !.conc = TRUE]
                  ELSE reqs[q]]
  /\ UNCHANGED <<lifeVars, storeVars, clock, tailVars, histVars, analyzeVars>>

(***************************************************************************)
(* POST /ingest: the body has ended; parse, validate, append, respond.     *)
(***************************************************************************)
IngestEnd(r) ==
  /\ reqs[r].st = "reading"
  /\ LET p == parseBody(reqs[r].body) IN
     IF p.ok /\ validateEntry(p) = NoError
     THEN \E io \in AppendOutcomes :
          \E t \in (IF Falsy(p.e.timestamp) THEN DateNow ELSE {clock}) :
            /\ IF io = "ok"
               THEN /\ store' = writeLogEntry(store, p.e, t)
                    /\ storeExists' = TRUE
                    /\ UNCHANGED <<readable, pending>>
               ELSE UNCHANGED storeVars
            /\ clock' = t
            /\ reqs' = [reqs EXCEPT ![r].st = "done", ![r].io = io,
                          ![r].res = handleRequest(reqs[r].method, reqs[r].path,
                                                   reqs[r].body, io)]
     ELSE /\ reqs' = [reqs EXCEPT ![r].st = "done",
                          ![r].res = handleRequest(reqs[r].method, reqs[r].path,
                                                   reqs[r].body, "none")]
          /\ UNCHANGED <<storeVars, clock>>
  /\ UNCHANGED <<lifeVars, tailVars, histVars, analyzeVars>>

\* the methods and request targets of the model: the three paths served, one
\* that is not, and a target new URL rejects
Methods == {"GET", "POST", "OPTIONS", "DELETE"}

Paths == {"/", "/health", "/ingest", "/other", "//"}

(***************************************************************************)
(* A request other than POST /ingest: handleRequest answers it at once.    *)
(***************************************************************************)
Route(r) ==
  /\ reqs[r].st = "none"
  /\ \A q \in 1..(r - 1) : reqs[q].st # "none"
  /\ \E method \in Methods, path \in Paths :
       /\ ~(method = "POST" /\ path = "/ingest")
       /\ reqs' = [reqs EXCEPT ![r] =
                     [NoReq EXCEPT !.st = "done", !.method = method, !.path = path,
                                   !.res = handleRequest(method, path, <<>>, "none")]]
  /\ UNCHANGED <<lifeVars, storeVars, clock, tailVars, histVars, analyzeVars>>

InitStore ==
  /\ storeExists = FALSE
  /\ store = <<>>
  /\ readable = TRUE
  /\ pending = NoPending
  /\ clock = 1

InitIdle ==
  /\ reqs = [r \in 1..MaxReq |-> NoReq]
  /\ options = Null
  /\ tpc = "off"
  /\ lastSize = 0
  /\ buffer = <<>>
  /\ currentSize = 0
  /\ emitted = <<>>
  /\ notices = 0
  /\ appended = <<>>
  /\ epoch = 0
  /\ cleared = <<>>
  /\ argv = <<>>
  /\ report = <<>>
  /\ prevReport = <<>>
  /\ runs = 0

Init == InitStore /\ InitIdle /\ InitNoLifecycle

Next == \E r \in 1..MaxReq : IngestBegin(r) \/ IngestEnd(r) \/ Route(r)

Spec == Init /\ [][Next]_vars

(***************************************************************************)
(* The tailer, scripts/tail-logs.mjs, with the writers of the store:       *)
(* writeLogEntry of the server and scripts/clear-logs.mjs.                 *)
(***************************************************************************)
\* printEntry throws before it prints when the hypothesisId has no
\* charCodeAt, and reading a property of null throws: the catch of
\* processNewLines reports both as a parse error
Printable(p) == p.ok /\ p.k = "object" /\ p.e.hypothesisId.t = "string"

RECURSIVE processNewLines_StopOnError(_, _, _)
processNewLines_StopOnError(lines, i, filter) ==
  IF i > Len(lines) THEN [events |-> <<>>, errors |-> 0]
  ELSE LET p == JSONparse(lines[i]) IN
       IF Trim(lines[i]) = <<>> THEN processNewLines_StopOnError(lines, i + 1, filter)
       ELSE IF p.ok /\ p.k # "null" /\ ~Falsy(filter) /\ p.e.hypothesisId # filter
       THEN processNewLines_StopOnError(lines, i + 1, filter)
       ELSE IF Printable(p)
       THEN [processNewLines_StopOnError(lines, i + 1, filter) EXCEPT !.events = <<p.e>> \o @]
       ELSE [events |-> <<>>, errors |-> 1]

RECURSIVE processNewLines(_, _, _)
processNewLines(lines, i, filter) ==
  IF i > Len(lines) THEN [events |-> <<>>, errors |-> 0]
  ELSE LET rest == processNewLines(lines, i + 1, filter)
           p == JSONparse(lines[i])
       IN IF Trim(lines[i]) = <<>> THEN rest
          ELSE IF p.ok /\ p.k # "null" /\ ~Falsy(filter) /\ p.e.hypothesisId # filter
          THEN rest
          ELSE IF Printable(p)
          THEN [rest EXCEPT !.events = <<p.e>> \o @]
          ELSE [rest EXCEPT !.errors = @ + 1]

Event(e) == [e |-> e, epoch |-> epoch]

RECURSIVE Events(_)
Events(es) == IF es = <<>> THEN <<>> ELSE <<Event(Head(es))>> \o Events(Tail(es))

TailEntries == {Entry("A", Null, Str("info"), Num(1)), Entry("B", Null, Str("info"), Num(1))}

\* the n-th entry appended carries n as its data
Numbered(e, n) == [e EXCEPT !["data"] = Num(n), !["message"] = IF n = 2 THEN Str("é") ELSE @]

(***************************************************************************)
(* The server accepts an entry and appends its line (writeLogEntry).       *)
(***************************************************************************)
AppendEntry ==
  /\ Len(appended) < MaxAppends
  /\ pending = NoPending
  /\ \E e \in TailEntries :
       LET entry == Numbered(e, Len(appended) + 1) IN
         /\ store' = writeLogEntry(store, entry, clock)
         /\ appended' = Append(appended, Event(entry))
  /\ storeExists' = TRUE
  /\ UNCHANGED <<lifeVars, readable, pending, clock, reqs, tailVars, epoch, cleared,
                 analyzeVars>>

(***************************************************************************)
(* The same append as another process sees it when the write of the line   *)
(* reaches the file in two parts: the first part, then the rest.           *)
(***************************************************************************)
AppendPart ==
  /\ Len(appended) < MaxAppends
  /\ pending = NoPending
  /\ \E e \in TailEntries :
       LET entry == Numbered(e, Len(appended) + 1)
           line == writeLogEntry(<<>>, entry, clock)
           half == Len(line) \div 2
       IN /\ store' = store \o SubSeq(line, 1, half)
          /\ pending' = [rest |-> SubSeq(line, half + 1, Len(line)), e |-> entry]
  /\ storeExists' = TRUE
  /\ UNCHANGED <<lifeVars, readable, clock, reqs, tailVars, histVars, analyzeVars>>

AppendRest ==
  /\ pending # NoPending
  /\ store' = store \o pending.rest
  /\ storeExists' = TRUE
  /\ appended' = Append(appended, Event(pending.e))
  /\ pending' = NoPending
  /\ UNCHANGED <<lifeVars, readable, clock, reqs, tailVars, epoch, cleared, analyzeVars>>

(***************************************************************************)
(* clear-logs.mjs: truncate the store if it exists.                        *)
(***************************************************************************)
clearLogs_Unlink(exists, content) ==
  IF ~exists
  THEN [exists |-> FALSE, content |-> content, out |-> "No log file to clear", exit |-> 0]
  ELSE [exists |-> FALSE, content |-> <<>>, out |-> "Debug logs cleared", exit |-> 0]

\* the store after clear-logs, what it prints and its exit code
clearLogs(exists, content) ==
  IF ~exists
  THEN [exists |-> FALSE, content |-> content, out |-> "No log file to clear", exit |-> 0]
  ELSE [exists |-> TRUE, content |-> <<>>, out |-> "Debug logs cleared", exit |-> 0]

ClearLogs ==
  /\ Len(cleared) < MaxClears
  /\ LET run == clearLogs(storeExists, store) IN
       /\ storeExists' = run.exists
       /\ store' = run.content
       /\ cleared' = Append(cleared, [out |-> run.out, exit |-> run.exit])
  /\ epoch' = IF storeExists THEN epoch + 1 ELSE epoch
  /\ UNCHANGED <<lifeVars, readable, pending, clock, reqs, tailVars, appended, analyzeVars>>

(***************************************************************************)
(* tailLogs: the store exists, the wait loop ends and the initial size is  *)
(* taken.                                                                  *)
(***************************************************************************)
TailStart ==
  /\ tpc = "waiting"
  /\ storeExists
  /\ lastSize' = ByteSize(store)
  /\ tpc' = "idle"
  /\ UNCHANGED <<lifeVars, storeVars, clock, reqs, options, buffer, currentSize, emitted, notices,
                 histVars, analyzeVars>>

(***************************************************************************)
(* readNewContent, on a watch event or a poll: statSync and the two size   *)
(* tests.                                                                  *)
(***************************************************************************)
TailStat_KeepBuffer ==
  /\ tpc = "idle"
  /\ IF ~storeExists
     THEN /\ lastSize' = 0
          /\ buffer' = <<>>
          /\ UNCHANGED <<tpc, currentSize>>
     ELSE LET size == ByteSize(store)
              truncated == size < lastSize
          IN /\ lastSize' = IF truncated THEN 0 ELSE lastSize
             /\ buffer' = buffer
             /\ IF size > lastSize'
                THEN tpc' = "read" /\ currentSize' = size
                ELSE UNCHANGED <<tpc, currentSize>>
  /\ UNCHANGED <<lifeVars, storeVars, clock, reqs, options, emitted, notices, histVars, analyzeVars>>

TailStat ==
  /\ tpc = "idle"
  /\ IF ~storeExists
     THEN /\ lastSize' = 0
          /\ buffer' = <<>>
          /\ UNCHANGED <<tpc, currentSize>>
     ELSE LET size == ByteSize(store)
              truncated == size < lastSize
          IN /\ lastSize' = IF truncated THEN 0 ELSE lastSize
             /\ buffer' = IF truncated THEN <<>> ELSE buffer
             /\ IF size > lastSize'
                THEN tpc' = "read" /\ currentSize' = size
                ELSE UNCHANGED <<tpc, currentSize>>
  /\ UNCHANGED <<lifeVars, storeVars, clock, reqs, options, emitted, notices, histVars, analyzeVars>>

(***************************************************************************)
(* readNewContent: readFileSync, slice, split, processNewLines.            *)
(***************************************************************************)
TailRead_StopOnError ==
  /\ tpc = "read"
  /\ tpc' = IF storeExists /\ readable THEN "idle" ELSE "off"
  /\ currentSize' = 0
  /\ IF ~storeExists
     THEN /\ lastSize' = 0
          /\ buffer' = <<>>
          /\ UNCHANGED <<emitted, notices>>
     ELSE IF ~readable
     THEN UNCHANGED <<lastSize, buffer, emitted, notices>>
     ELSE LET newContent == Slice(store, lastSize)
              lines == Split(buffer \o newContent)
              out == processNewLines(SubSeq(lines, 1, Len(lines) - 1), 1, options)
          IN /\ lastSize' = currentSize
             /\ buffer' = lines[Len(lines)]
             /\ emitted' = emitted \o Events(out.events)
             /\ notices' = notices + out.errors
  /\ UNCHANGED <<lifeVars, storeVars, clock, reqs, options, histVars, analyzeVars>>

\* readFileSync throws when the store is gone or cannot be read: the catch
\* resets the cursor and the buffer only if the store does not exist
TailRead ==
  /\ tpc = "read"
  /\ tpc' = "idle"
  /\ currentSize' = 0
  /\ IF ~storeExists
     THEN /\ lastSize' = 0
          /\ buffer' = <<>>
          /\ UNCHANGED <<emitted, notices>>
     ELSE IF ~readable
     THEN UNCHANGED <<lastSize, buffer, emitted, notices>>
     ELSE LET newContent == Slice(store, lastSize)
              lines == Split(buffer \o newContent)
              out == processNewLines(SubSeq(lines, 1, Len(lines) - 1), 1, options)
          IN /\ lastSize' = currentSize
             /\ buffer' = lines[Len(lines)]
             /\ emitted' = emitted \o Events(out.events)
             /\ notices' = notices + out.errors
  /\ UNCHANGED <<lifeVars, storeVars, clock, reqs, options, histVars, analyzeVars>>

OldLine == JSONstringify(Entry("A", Null, Str("info"), Num(1))) \o <<Nl>>

\* the tailer is started with or without a filter, before the store exists
\* or when it exists and its size has been taken
InitTail ==
  /\ clock = 1
  /\ reqs = [r \in 1..MaxReq |-> NoReq]
  /\ options \in {Null, Str("A")}
  /\ \/ storeExists = FALSE /\ store = <<>> /\ tpc = "waiting" /\ lastSize = 0
     \/ storeExists = TRUE /\ store = <<>> /\ tpc = "idle" /\ lastSize = 0
     \/ storeExists = TRUE /\ store = OldLine /\ tpc = "idle" /\ lastSize = ByteSize(OldLine)
  /\ readable = TRUE
  /\ pending = NoPending
  /\ buffer = <<>>
  /\ currentSize = 0
  /\ emitted = <<>>
  /\ notices = 0
  /\ appended = <<>>
  /\ epoch = 0
  /\ cleared = <<>>
  /\ argv = <<>>
  /\ report = <<>>
  /\ prevReport = <<>>
  /\ runs = 0
  /\ InitNoLifecycle

\* the store is deleted; a store created afterwards can be read
DeleteStore ==
  /\ storeExists
  /\ pending = NoPending
  /\ epoch < MaxClears
  /\ storeExists' = FALSE
  /\ store' = <<>>
  /\ readable' = TRUE
  /\ epoch' = epoch + 1
  /\ UNCHANGED <<lifeVars, pending, clock, reqs, tailVars, appended, cleared, analyzeVars>>

\* the permissions of the store are changed
Chmod ==
  /\ storeExists
  /\ readable' = ~readable
  /\ UNCHANGED <<lifeVars, storeExists, store, pending, clock, reqs, tailVars, histVars,
                 analyzeVars>>

NextTail == AppendEntry \/ ClearLogs \/ TailStart \/ TailStat \/ TailRead

\* bound on the lines another program appends
MaxJunk == 1

\* lines that are not the JSON text of an entry
JunkLines == {<<Junk>>, <<NullLit>>}

\* another program appends a line that is not an entry
AppendJunk ==
  /\ storeExists
  /\ pending = NoPending
  /\ Len(SelectSeq(Split(store), LAMBDA l : l \in JunkLines)) < MaxJunk
  /\ \E line \in JunkLines : store' = store \o line \o <<Nl>>
  /\ UNCHANGED <<lifeVars, storeExists, readable, pending, clock, reqs, tailVars, histVars,
                 analyzeVars>>

\* the tailer beside the writer and a program that appends other lines
InitJunk == InitTail /\ tpc = "idle" /\ store = <<>>

NextJunk ==
  \/ AppendEntry /\ Len(appended) < MaxParts
  \/ AppendJunk
  \/ TailStat
  \/ TailRead

SpecJunk == InitJunk /\ [][NextJunk]_vars

\* the tailer beside the writer while the store is deleted, created again
\* and made unreadable or readable
NextWatch ==
  \/ AppendEntry
  \/ DeleteStore
  \/ Chmod
  \/ TailStart
  \/ TailStat
  \/ TailRead

SpecWatch == InitTail /\ [][NextWatch]_vars

SpecTail == InitTail /\ [][NextTail]_vars

\* the tailer beside a writer whose lines reach the store whole or in two
\* parts; the store is not cleared
NextPart == AppendEntry \/ AppendPart \/ AppendRest \/ TailStart \/ TailStat \/ TailRead

SpecPart == InitTail /\ [][NextPart]_vars

\* the tailer, watching the store without a filter, beside clear-logs and a
\* writer of MaxParts lines that reach the store in two parts
InitTrunc == InitTail /\ options = Null /\ tpc = "idle"

NextTrunc ==
  \/ AppendPart /\ Len(appended) < MaxParts
  \/ AppendRest
  \/ ClearLogs
  \/ TailStat
  \/ TailRead

SpecTrunc == InitTrunc /\ [][NextTrunc]_vars

(***************************************************************************)
(* One run of analyze-logs.mjs over the store, and the stores and command  *)
(* lines it is run on.                                                     *)
(***************************************************************************)
LogEntry(h, loc, msg, l, ts) ==
  [location |-> Str(loc), hypothesisId |-> Str(h), message |-> Str(msg),
   data |-> Null, level |-> l, timestamp |-> ts]

\* lines of a store: entries as the loggers and the server write them, an
\* entry without timestamp or level, text that is not JSON, the JSON text null
SampleLines ==
  { JSONstringify(LogEntry("A", "p", "m1", Str("error"), Num(1))),
    JSONstringify(LogEntry("A", "q", "m2", Undef, Num(2))),
    JSONstringify(LogEntry("B", "p", "m3", Str("error"), Undef)),
    JSONstringify(LogEntry("A", "p", "m4", Str("info"), Num(1))),
    <<Junk>>,
    <<NullLit>> }

RECURSIVE Stores(_)
Stores(n) ==
  IF n = 0 THEN {<<>>}
  ELSE Stores(n - 1) \cup {content \o line \o <<Nl>> :
                             content \in Stores(n - 1), line \in SampleLines}

CommandLines ==
  { <<>>, <<"--json">>, <<"--hypothesis", "A">>, <<"-h", "B">>, <<"--hypothesis", "Z">>,
    <<"--hypothesis", "">>, <<"--hypothesis">>, <<"--json", "-h", "A">> }

\* whether analyzeEntries calls Date.now(): an entry it keeps has no timestamp
ReadsClock(entries, filterHypothesis) ==
  \E i \in 1..Len(entries) :
    /\ entries[i].k # "null"
    /\ Falsy(filterHypothesis) \/ entries[i].e.hypothesisId = filterHypothesis
    /\ Falsy(entries[i].e.timestamp)

ReadFails_Swallowed(exists, canRead) == FALSE

\* whether readFileSync throws in parseLogFile: the store exists and cannot
\* be read
ReadFails(exists, canRead) == exists /\ ~canRead

\* a run that ends in an uncaught exception prints no report: node writes the
\* exception to stderr and exits with status 1
Uncaught == <<[NewAnalysis EXCEPT !.thrown = TRUE], NoSummary>>

Analyze ==
  /\ runs < MaxRuns
  /\ IF ReadFails(storeExists, readable)
     THEN report' = Uncaught /\ UNCHANGED clock
     ELSE LET opts == parseArgs(argv)
              entries == parseLogFile(storeExists, store)
          IN \E t \in (IF ReadsClock(entries, opts.hypothesis) THEN DateNow ELSE {clock}) :
               /\ report' = <<analyzeEntries(entries, opts.hypothesis, t),
                               Output(opts, analyzeEntries(entries, opts.hypothesis, t))>>
               /\ clock' = t
  /\ prevReport' = report
  /\ runs' = runs + 1
  /\ UNCHANGED <<lifeVars, storeVars, reqs, tailVars, histVars, argv>>

InitAnalyze ==
  /\ clock = 1
  /\ reqs = [r \in 1..MaxReq |-> NoReq]
  /\ \/ storeExists = FALSE /\ store = <<>> /\ readable = TRUE
     \/ storeExists = TRUE /\ store \in Stores(MaxLines) /\ readable \in BOOLEAN
  /\ pending = NoPending
  /\ argv \in CommandLines
  /\ options = Null
  /\ tpc = "off"
  /\ lastSize = 0
  /\ buffer = <<>>
  /\ currentSize = 0
  /\ emitted = <<>>
  /\ notices = 0
  /\ appended = <<>>
  /\ epoch = 0
  /\ cleared = <<>>
  /\ report = <<>>
  /\ prevReport = <<>>
  /\ runs = 0
  /\ InitNoLifecycle

NextAnalyze == Analyze

SpecAnalyze == InitAnalyze /\ [][NextAnalyze]_vars

(***************************************************************************)
(* Process lifecycle: scripts/start-collector.mjs, scripts/stop-collector.mjs *)
(* and the start and the shutdown of scripts/collector.mjs.  The scripts   *)
(* are run one after the other; the collector processes run beside them.   *)
(***************************************************************************)
\* isProcessRunning: process.kill(pid, 0) succeeds
isProcessRunning(pid) == pid \in Pids /\ procs[pid].st \notin {"none", "exited"}

\* getRunningPid: the pid of the PID file when that process is running, or null
getRunningPid == IF marker # NoMarker /\ isProcessRunning(marker) THEN marker ELSE NoMarker

\* GET /health is answered 200: by a collector of this directory that
\* listens, or by the collector of another directory that holds the port
HealthOk == port \in {"ours", "collector of another directory"}

\* the collector of this directory that listens, if any
Listening == {p \in Pids : procs[p].st = "listening"}

ListeningPid == IF Listening = {} THEN 0 ELSE CHOOSE p \in Listening : TRUE

CanBegin(c) ==
  /\ calls[c].kind = "none"
  /\ \A d \in 1..(c - 1) : calls[d].pc = "done"

\* start-collector up to waitForStart: report the running collector, or spawn
StartBegin(c) ==
  /\ CanBegin(c)
  /\ IF getRunningPid # NoMarker
     THEN /\ calls' = [calls EXCEPT ![c] =
                         [NoCall EXCEPT !.kind = "start", !.pc = "done",
                                        !.res = "already running", !.pid = getRunningPid,
                                        !.listening = ListeningPid]]
          /\ UNCHANGED procs
     ELSE /\ calls' = [calls EXCEPT ![c] =
                         [NoCall EXCEPT !.kind = "start", !.pc = "waiting",
                                        !.listening = ListeningPid]]
          /\ procs' = [procs EXCEPT ![c].st = "spawned"]
  /\ UNCHANGED <<marker, port, storeVars, clock, reqs, tailVars, histVars, analyzeVars>>

\* one round of waitForStart before the timeout, and the report of success
\* with the pid read from the PID file.  fetch is awaited without a timeout
\* of its own: a program on the port that accepts the connection and sends
\* no answer leaves the round pending
StartPoll(c) ==
  /\ calls[c].kind = "start" /\ calls[c].pc = "waiting"
  /\ calls[c].elapsed < StartTimeout
  /\ IF HealthOk
     THEN calls' = [calls EXCEPT ![c].pc = "done", ![c].res = "started", ![c].pid = marker,
                                 ![c].elapsed = 0, ![c].polled = FALSE]
     ELSE /\ ~calls[c].polled
          /\ \/ calls' = [calls EXCEPT ![c].polled = TRUE]
             \/ /\ port = "another program"
                /\ calls' = [calls EXCEPT ![c].pc = "probing"]
  /\ UNCHANGED <<marker, port, procs, storeVars, clock, reqs, tailVars, histVars, analyzeVars>>

\* the pending fetch is rejected (the peer closes the connection, or a
\* timeout of the runtime): the catch, then the sleep of the round
StartProbeEnds(c) ==
  /\ calls[c].kind = "start" /\ calls[c].pc = "probing"
  /\ calls' = [calls EXCEPT ![c].pc = "waiting", ![c].polled = TRUE]
  /\ UNCHANGED <<marker, port, procs, storeVars, clock, reqs, tailVars, histVars, analyzeVars>>

\* waitForStart returns false
StartFailed(c) ==
  /\ calls[c].kind = "start" /\ calls[c].pc = "waiting"
  /\ calls[c].elapsed >= StartTimeout
  /\ calls' = [calls EXCEPT ![c].pc = "done", ![c].res = "failed",
                            ![c].elapsed = 0, ![c].polled = FALSE]
  /\ UNCHANGED <<marker, port, procs, storeVars, clock, reqs, tailVars, histVars, analyzeVars>>

StopBegin_KeepStale(c) ==
  /\ CanBegin(c)
  /\ IF marker = NoMarker
     THEN /\ calls' = [calls EXCEPT ![c] =
                         [NoCall EXCEPT !.kind = "stop", !.pc = "done",
                                        !.res = "not running (no PID file)"]]
          /\ UNCHANGED <<marker, procs>>
     ELSE IF ~isProcessRunning(marker)
     THEN /\ calls' = [calls EXCEPT ![c] =
                         [NoCall EXCEPT !.kind = "stop", !.pc = "done",
                                        !.res = "not running (stale PID file)"]]
          /\ UNCHANGED <<marker, procs>>
     ELSE /\ calls' = [calls EXCEPT ![c] =
                         [NoCall EXCEPT !.kind = "stop", !.pc = "waiting",
                                        !.target = marker]]
          /\ procs' = [procs EXCEPT ![marker].sig = TRUE]
          /\ UNCHANGED marker
  /\ UNCHANGED <<port, storeVars, clock, reqs, tailVars, histVars, analyzeVars>>

\* stop-collector up to waitForTermination: nothing to stop, a stale PID file
\* to remove, or SIGTERM to the process of the PID file
StopBegin(c) ==
  /\ CanBegin(c)
  /\ IF marker = NoMarker
     THEN /\ calls' = [calls EXCEPT ![c] =
                         [NoCall EXCEPT !.kind = "stop", !.pc = "done",
                                        !.res = "not running (no PID file)"]]
          /\ UNCHANGED <<marker, procs>>
     ELSE IF ~isProcessRunning(marker)
     THEN /\ calls' = [calls EXCEPT ![c] =
                         [NoCall EXCEPT !.kind = "stop", !.pc = "done",
                                        !.res = "not running (stale PID file)"]]
          /\ marker' = NoMarker
          /\ UNCHANGED procs
     ELSE /\ calls' = [calls EXCEPT ![c] =
                         [NoCall EXCEPT !.kind = "stop", !.pc = "waiting",
                                        !.target = marker]]
          /\ procs' = [procs EXCEPT ![marker].sig = TRUE]
          /\ UNCHANGED marker
  /\ UNCHANGED <<port, storeVars, clock, reqs, tailVars, histVars, analyzeVars>>

\* one round of waitForTermination before the timeout; when the process is
\* gone the PID file is removed if it exists
StopPoll(c) ==
  /\ calls[c].kind = "stop" /\ calls[c].pc = "waiting"
  /\ calls[c].elapsed < StopTimeout
  /\ IF ~isProcessRunning(calls[c].target)
     THEN /\ calls' = [calls EXCEPT ![c].pc = "done", ![c].res = "stopped",
                                    ![c].pid = calls[c].target,
                                    ![c].elapsed = 0, ![c].polled = FALSE]
          /\ marker' = NoMarker
     ELSE /\ ~calls[c].polled
          /\ calls' = [calls EXCEPT ![c].polled = TRUE]
          /\ UNCHANGED marker
  /\ UNCHANGED <<port, procs, storeVars, clock, reqs, tailVars, histVars, analyzeVars>>

\* waitForTermination returns false: SIGKILL to the pid
StopKill(c) ==
  /\ calls[c].kind = "stop" /\ calls[c].pc = "waiting"
  /\ calls[c].elapsed >= StopTimeout
  /\ calls' = [calls EXCEPT ![c].pc = "done", ![c].res = "did not terminate gracefully",
                            ![c].pid = calls[c].target, ![c].kill = TRUE,
                            ![c].elapsed = 0, ![c].polled = FALSE]
  /\ IF isProcessRunning(calls[c].target)
     THEN /\ procs' = [procs EXCEPT ![calls[c].target] = Exited(procs[calls[c].target].sig)]
          /\ port' = IF procs[calls[c].target].st = "listening" THEN "free" ELSE port
     ELSE UNCHANGED <<procs, port>>
  /\ UNCHANGED <<marker, storeVars, clock, reqs, tailVars, histVars, analyzeVars>>

\* collector.mjs, lines 28-33: the process writes its pid to the PID file
CollectorLoad(p) ==
  /\ procs[p].st = "spawned"
  /\ procs' = [procs EXCEPT ![p].st = "loaded"]
  /\ marker' = p
  /\ UNCHANGED <<port, calls, storeVars, clock, reqs, tailVars, histVars, analyzeVars>>

\* server.listen: the port is bound, or the error event of a port in use,
\* which nothing handles, ends the process
CollectorListen(p) ==
  /\ procs[p].st = "loaded"
  /\ IF port = "free"
     THEN /\ procs' = [procs EXCEPT ![p].st = "listening"]
          /\ port' = "ours"
     ELSE /\ procs' = [procs EXCEPT ![p] = Exited(procs[p].sig)]
          /\ UNCHANGED port
  /\ UNCHANGED <<marker, calls, storeVars, clock, reqs, tailVars, histVars, analyzeVars>>

\* SIGINT from the terminal of a collector that listens
Interrupt(p) ==
  /\ procs[p].st = "listening"
  /\ ~procs[p].sig
  /\ procs' = [procs EXCEPT ![p].sig = TRUE]
  /\ UNCHANGED <<marker, port, calls, storeVars, clock, reqs, tailVars, histVars, analyzeVars>>

\* the signal arrives: shutdown closes the listener and arms the forced
\* exit; before the handlers are registered the signal ends the process
CollectorSignal(p) ==
  /\ procs[p].sig
  /\ procs[p].st \in {"spawned", "loaded", "listening"}
  /\ IF procs[p].st = "listening"
     THEN /\ procs' = [procs EXCEPT ![p].st = "closing", ![p].grace = 0]
          /\ port' = "free"
     ELSE /\ procs' = [procs EXCEPT ![p] = Exited(procs[p].sig)]
          /\ UNCHANGED port
  /\ UNCHANGED <<marker, calls, storeVars, clock, reqs, tailVars, histVars, analyzeVars>>

CollectorClosed_KeepMarker(p) ==
  /\ procs[p].st = "closing"
  /\ procs' = [procs EXCEPT ![p] = Exited(procs[p].sig)]
  /\ UNCHANGED <<marker, port, calls, storeVars, clock, reqs, tailVars, histVars, analyzeVars>>

\* the callback of server.close: the PID file is removed if it exists, exit(0)
CollectorClosed(p) ==
  /\ procs[p].st = "closing"
  /\ procs' = [procs EXCEPT ![p] = Exited(procs[p].sig)]
  /\ marker' = NoMarker
  /\ UNCHANGED <<port, calls, storeVars, clock, reqs, tailVars, histVars, analyzeVars>>

CollectorForceExit_Never(p) == FALSE /\ UNCHANGED vars

\* the timer of shutdown: exit(1)
CollectorForceExit(p) ==
  /\ procs[p].st = "closing"
  /\ procs[p].grace >= ForceExitAfter
  /\ procs' = [procs EXCEPT ![p] = Exited(procs[p].sig)]
  /\ UNCHANGED <<marker, port, calls, storeVars, clock, reqs, tailVars, histVars, analyzeVars>>

\* a process that is starting, or that has a signal to handle
Busy(p) ==
  \/ procs[p].st \in {"spawned", "loaded"}
  \/ procs[p].st = "listening" /\ procs[p].sig

\* a second passes.  The scripts poll every 100 ms, so each waiting script
\* has polled since the last second; a script or a process whose timeout has
\* passed acts before the next second, and so does a process that is
\* starting (the module body up to listen) or has a signal to handle.  A
\* script whose fetch is pending does nothing; the time it has waited is
\* counted up to one second past the timeout
Tick ==
  /\ \A p \in Pids : ~Busy(p)
  /\ \/ \E c \in 1..MaxCalls : calls[c].pc = "waiting"
     \/ \E c \in 1..MaxCalls : calls[c].pc = "probing" /\ calls[c].elapsed <= StartTimeout
     \/ \E p \in Pids : procs[p].st = "closing"
  /\ \A c \in 1..MaxCalls :
       calls[c].pc = "waiting" =>
         /\ calls[c].polled
         /\ calls[c].elapsed < (IF calls[c].kind = "start" THEN StartTimeout ELSE StopTimeout)
  /\ \A p \in Pids : procs[p].st = "closing" => procs[p].grace < ForceExitAfter
  /\ calls' = [c \in 1..MaxCalls |->
                 IF calls[c].pc = "waiting"
                 THEN [calls[c] EXCEPT
                         !.elapsed = @ + 1,
                         !.polled = FALSE,
                         !.exitedInTime = /\ calls[c].kind = "stop"
                                          /\ calls[c].elapsed + 1 = StopTimeout
                                          /\ ~isProcessRunning(calls[c].target)]
                 ELSE IF calls[c].pc = "probing"
                 THEN [calls[c] EXCEPT !.elapsed = Min(@ + 1, StartTimeout + 1)]
                 ELSE calls[c]]
  /\ procs' = [p \in Pids |->
                 IF procs[p].st = "closing" THEN [procs[p] EXCEPT !.grace = @ + 1]
                 ELSE procs[p]]
  /\ UNCHANGED <<marker, port, storeVars, clock, reqs, tailVars, histVars, analyzeVars>>

\* the state the scripts are first run in: no PID file or the PID file of a
\* collector that is gone; the port free or held by another program
InitLife ==
  /\ InitStore
  /\ InitIdle
  /\ marker \in {NoMarker, StalePid}
  /\ port \in {"free", "collector of another directory", "another program"}
  /\ procs = [p \in Pids |-> NoProc]
  /\ calls = [c \in 1..MaxCalls |-> NoCall]

NextLife ==
  \/ \E c \in 1..MaxCalls :
       \/ StartBegin(c)
       \/ StartPoll(c)
       \/ StartProbeEnds(c)
       \/ StartFailed(c)
       \/ StopBegin(c)
       \/ StopPoll(c)
       \/ StopKill(c)
  \/ \E p \in Pids :
       \/ CollectorLoad(p)
       \/ CollectorListen(p)
       \/ Interrupt(p)
       \/ CollectorSignal(p)
       \/ CollectorClosed(p)
       \/ CollectorForceExit(p)
  \/ Tick

SpecLife == InitLife /\ [][NextLife]_vars

\* the event loop of a collector runs its timers and its signal handlers, a
\* script that polls goes on polling, and time passes; nothing makes a
\* listener finish closing, and nothing makes anybody start or stop a collector
LifeFairness ==
  /\ WF_vars(Tick)
  /\ \A p \in Pids :
       /\ WF_vars(CollectorLoad(p))
       /\ WF_vars(CollectorListen(p))
       /\ WF_vars(CollectorSignal(p))
       /\ WF_vars(CollectorForceExit(p))
  /\ \A c \in 1..MaxCalls :
       /\ WF_vars(StartPoll(c))
       /\ WF_vars(StartFailed(c))
       /\ WF_vars(StopPoll(c))
       /\ WF_vars(StopKill(c))

SpecLifeFair == SpecLife /\ LifeFairness

(***************************************************************************)
(* Runs of start-collector that overlap: a run may begin while earlier     *)
(* runs are still in waitForStart.  Nobody stops or interrupts a collector.*)
(***************************************************************************)
\* start-collector up to waitForStart, begun whatever the other runs do
StartOverlapping(c) ==
  /\ calls[c].kind = "none"
  /\ IF getRunningPid # NoMarker
     THEN /\ calls' = [calls EXCEPT ![c] =
                         [NoCall EXCEPT !.kind = "start", !.pc = "done",
                                        !.res = "already running", !.pid = getRunningPid,
                                        !.listening = ListeningPid]]
          /\ UNCHANGED procs
     ELSE /\ calls' = [calls EXCEPT ![c] =
                         [NoCall EXCEPT !.kind = "start", !.pc = "waiting",
                                        !.listening = ListeningPid]]
          /\ procs' = [procs EXCEPT ![c].st = "spawned"]
  /\ UNCHANGED <<marker, port, storeVars, clock, reqs, tailVars, histVars, analyzeVars>>

NextOverlap ==
  \/ \E c \in 1..MaxCalls :
       \/ StartOverlapping(c)
       \/ StartPoll(c)
       \/ StartProbeEnds(c)
       \/ StartFailed(c)
  \/ \E p \in Pids :
       \/ CollectorLoad(p)
       \/ CollectorListen(p)
  \/ Tick

SpecOverlap == InitLife /\ [][NextOverlap]_vars

(***************************************************************************)
(* Properties of the ingestion server.                                     *)
(***************************************************************************)
Required == {"location", "message", "hypothesisId"}

Submitted == {"location", "hypothesisId", "message", "data", "level"}

IsIngest(r) == reqs[r].method = "POST" /\ reqs[r].path = "/ingest"

\* the POST /ingest request r has been answered with the status
Answered(r, status) == reqs[r].st = "done" /\ IsIngest(r) /\ reqs[r].res.status = status

\* a full read of the store: its lines, each deserialized
FullRead ==
  LET lines == Split(Trim(store)) IN [i \in 1..Len(lines) |-> JSONparse(lines[i])]

SameSubmitted(e1, e2) == \A f \in Submitted : e1[f] = e2[f]

\* the lines of a read that deserialize to an object with the submitted fields
\* of entry e
LinesOf(read, e) ==
  {i \in 1..Len(read) : read[i].ok /\ read[i].k = "object" /\ SameSubmitted(read[i].e, e)}

\* the requests answered 200 that submitted the fields of entry e
RequestsOf(e) ==
  {q \in 1..MaxReq : Answered(q, 200) /\ SameSubmitted(JSONparse(reqs[q].body).e, e)}

OneLinePerRequest(read, r) ==
  \E e \in {JSONparse(reqs[r].body).e} :
  \E lines \in {LinesOf(read, e)} :
    /\ lines # {}
    /\ Cardinality(lines) = Cardinality(RequestsOf(e))

\* C1: every entry answered 200 is in a full read of the store on exactly one
\* line per request that submitted it, and the line deserializes to the same
\* location, hypothesisId, message, data and level.
C1_RoundTrip ==
  \E read \in {FullRead} :
    \A r \in 1..MaxReq : Answered(r, 200) => OneLinePerRequest(read, r)

C1_Witness ==
  \E r \in 1..MaxReq :
    /\ Answered(r, 200)
    /\ JSONparse(reqs[r].body).e.data = Obj("d")
    /\ JSONparse(reqs[r].body).e.level = Str("error")
    /\ Len(FullRead) = 2

BadField(body) ==
  \E p \in {JSONparse(body)} :
    /\ p.ok
    /\ p.k = "object"
    /\ \E f \in Required : ~(p.e[f].t = "string" /\ p.e[f].s # "")

Handled(r) == reqs[r].st = "reading" /\ reqs'[r].st = "done"

\* C2: a request whose location, message or hypothesisId is missing, empty or
\* not a string is answered with a 4xx status and its handling leaves the store
\* as it was.
C2_InvalidRejected ==
  [][\A r \in 1..MaxReq :
       Handled(r) /\ BadField(reqs[r].body) =>
         /\ reqs'[r].res.status \in 400..499
         /\ store' = store
         /\ storeExists' = storeExists]_vars

C2_Witness ==
  \E r, q \in 1..MaxReq :
    /\ Answered(r, 400) /\ reqs[r].res.error = "Missing required field: hypothesisId"
    /\ JSONparse(reqs[r].body).e.hypothesisId = Str("")
    /\ Answered(q, 200)

NotJsonObject(body) == \E p \in {parseBody(body)} : ~p.ok \/ p.k # "object"

\* C3: a request whose body is not a JSON object (invalid JSON, empty, a
\* scalar, an array, null) is answered 400 and its handling leaves the store as
\* it was.
C3_NonObjectRejected ==
  [][\A r \in 1..MaxReq :
       Handled(r) /\ NotJsonObject(reqs[r].body) =>
         /\ reqs'[r].res.status = 400
         /\ store' = store
         /\ storeExists' = storeExists]_vars

C3_Witness ==
  \E r, q \in 1..MaxReq :
    /\ Answered(r, 400) /\ reqs[r].body = <<Junk>>
    /\ Answered(q, 400) /\ reqs[q].body = <<ArrLit>>

Arrived == {r \in 1..MaxReq : reqs[r].st # "none" /\ IsIngest(r)}

AllAnswered200 == Arrived # {} /\ \A r \in Arrived : Answered(r, 200)

StoreAnalysis == analyzeEntries(parseLogFile(storeExists, store), Null, clock)

DistinctIds ==
  \A r, q \in Arrived :
    JSONparse(reqs[r].body).e.hypothesisId = JSONparse(reqs[q].body).e.hypothesisId
      => r = q

WholeLines(read, analysis, n) ==
  /\ Len(read) = n
  /\ \A i \in 1..n : read[i].ok /\ read[i].k = "object"
  /\ \A r \in Arrived : OneLinePerRequest(read, r)
  /\ analysis.total = n
  /\ DistinctIds =>
       /\ Cardinality(DOMAIN analysis.hypotheses) = n
       /\ \A h \in DOMAIN analysis.hypotheses : analysis.hypotheses[h].count = 1

Quiescent == tpc = "idle" /\ storeExists /\ ByteSize(store) = lastSize

Passes(e) == Falsy(options) \/ e.hypothesisId = options

EmittedAt(ev) == {i \in 1..Len(emitted) : emitted[i].e = ev.e}

\* C5: every entry appended while the tailer runs is eventually emitted: when
\* the tailer has nothing left to read, each appended entry (that passes the
\* filter) has been emitted.
C5_NoLoss ==
  (epoch = 0 /\ Quiescent) =>
    \A k \in 1..Len(appended) : Passes(appended[k].e) => EmittedAt(appended[k]) # {}

\* C6: without truncation, no appended entry is emitted more than once.
C6_NoDuplicate ==
  epoch = 0 => \A k \in 1..Len(appended) : Cardinality(EmittedAt(appended[k])) <= 1

EmittedSince(ev) ==
  {i \in 1..Len(emitted) : emitted[i].e = ev.e /\ emitted[i].epoch >= 1}

\* C7: after a truncation followed by appends, the tailer emits exactly the
\* entries appended after the truncation, each once, and none of the entries
\* appended before it again.
C7_Truncation ==
  (epoch = 1 /\ Quiescent) =>
    \A k \in 1..Len(appended) :
      IF appended[k].epoch = 1 /\ Passes(appended[k].e)
      THEN Cardinality(EmittedSince(appended[k])) = 1
      ELSE EmittedSince(appended[k]) = {}

(***************************************************************************)
(* Properties of the analyzer.                                             *)
(***************************************************************************)
\* C8: two runs of the analyzer over the same store with the same filter give
\* identical reports.
C8_Deterministic ==
  (report # <<>> /\ prevReport # <<>>) => report = prevReport

StoreEntries == parseLogFile(storeExists, store)

GivenFilter == parseArgs(argv).hypothesis

Reported == report # <<>> /\ ~report[1].thrown

CountOf(a, h) == IF h \in DOMAIN a.hypotheses THEN a.hypotheses[h].count ELSE 0

\* C9: with a filter value X given, the report has no group but X and no error
\* of another hypothesis, and its total is the count of group X in the
\* unfiltered analysis of the same store.
C9_FilterSubset ==
  (Reported /\ GivenFilter.t = "string") =>
    /\ DOMAIN report[1].hypotheses \subseteq {GivenFilter.s}
    /\ \A j \in 1..Len(report[1].errors) : report[1].errors[j].hypothesisId = GivenFilter
    /\ report[1].total = CountOf(analyzeEntries(StoreEntries, Null, clock), GivenFilter.s)

\* the entries a run with the given filter keeps: all of them unless the
\* filter is a non-empty string
Retained(es, filter) ==
  {i \in 1..Len(es) :
     filter.t = "string" /\ filter.s # "" => es[i].e.hypothesisId = filter}

LevelOf(e) == IF e.level = Undef THEN "info" ELSE Key(e.level)

ErrorsIn(es, S) == {i \in S : LevelOf(es[i].e) = "error"}

\* the j-th smallest element of a set of line numbers
Nth(S, j) == CHOOSE i \in S : Cardinality({x \in S : x < i}) = j - 1

\* errs lists exactly the entries with the line numbers S, in line order
ListsInOrder(errs, es, S) ==
  /\ Len(errs) = Cardinality(S)
  /\ \A j \in 1..Len(errs) :
       LET e == es[Nth(S, j)].e IN
         /\ errs[j].location = e.location
         /\ errs[j].message = e.message
         /\ errs[j].data = e.data

GroupAgrees(g, es, G) ==
  /\ g.count = Cardinality(G)
  /\ DOMAIN g.levels = {LevelOf(es[i].e) : i \in G}
  /\ \A l \in DOMAIN g.levels :
       g.levels[l] = Cardinality({i \in G : LevelOf(es[i].e) = l})
  /\ DOMAIN g.locations = {Key(es[i].e.location) : i \in G}
  /\ \A l \in DOMAIN g.locations :
       g.locations[l] = Cardinality({i \in G : Key(es[i].e.location) = l})
  /\ ListsInOrder(g.errors, es, ErrorsIn(es, G))

ReportAgrees(a, es, R) ==
  /\ DOMAIN a.hypotheses = {Key(es[i].e.hypothesisId) : i \in R}
  /\ \A h \in DOMAIN a.hypotheses :
       GroupAgrees(a.hypotheses[h], es, {i \in R : Key(es[i].e.hypothesisId) = h})
  /\ ListsInOrder(a.errors, es, ErrorsIn(es, R))
  /\ \A j \in 1..Len(a.errors) :
       a.errors[j].hypothesisId = es[Nth(ErrorsIn(es, R), j)].e.hypothesisId

ErrorCount(es, R, h) ==
  Cardinality({i \in ErrorsIn(es, R) : Key(es[i].e.hypothesisId) = h})

GroupsOf(es, R) == {Key(es[i].e.hypothesisId) : i \in R}

\* the first line with an error of hypothesis h
FirstError(es, R, h) ==
  Nth({i \in ErrorsIn(es, R) : Key(es[i].e.hypothesisId) = h}, 1)

TextReported == Reported /\ report[2].kind \notin {"none", "json"}

RootCauseAgrees(out, es, R) ==
  /\ out.kind = "root"
  /\ out.topH \in GroupsOf(es, R)
  /\ out.topN = ErrorCount(es, R, out.topH)
  /\ \A h \in GroupsOf(es, R) :
       /\ ErrorCount(es, R, h) <= out.topN
       /\ (h # out.topH /\ ErrorCount(es, R, h) = out.topN)
            => FirstError(es, R, out.topH) < FirstError(es, R, h)
  /\ {out.noErrors[j] : j \in 1..Len(out.noErrors)}
       = {h \in GroupsOf(es, R) : ErrorCount(es, R, h) = 0}

\* C11: when the retained entries hold an error, the hypothesis the text
\* report flags has at least as many errors as every other group; among groups
\* with as many, it is the one whose first error comes first in the store (so
\* two runs flag the same one); the hypotheses listed as showing no errors are
\* exactly the groups without error entries.
C11_RootCause ==
  /\ TextReported =>
       LET es == StoreEntries
           R == Retained(es, GivenFilter)
       IN ErrorsIn(es, R) # {} => RootCauseAgrees(report[2], es, R)
  /\ (TextReported /\ prevReport # <<>>) => report[2] = prevReport[2]

C11_Witness ==
  /\ TextReported
  /\ prevReport # <<>>
  /\ report[2].kind = "root"
  /\ report[2].topH = "B"
  /\ report[2].topN = 1
  /\ DOMAIN report[1].hypotheses = {"A", "B"}
  /\ Len(report[1].hypotheses["A"].errors) = 1
  /\ report[1].hypotheses["A"].count = 2

(***************************************************************************)
(* Properties of the process lifecycle.                                    *)
(***************************************************************************)
Made == {c \in 1..MaxCalls : calls[c].kind # "none"}

ReportedPid == {c \in Made : calls[c].res \in {"started", "already running"}}

AliveProcs == {p \in Pids : isProcessRunning(p)}

OnlyStarts ==
  /\ Made # {}
  /\ \A c \in Made : calls[c].kind = "start" /\ calls[c].pc = "done"
  /\ \A p \in Pids : ~procs[p].sig /\ ~Busy(p)

\* C12: a start() begun while a collector of the directory listens spawns no
\* process and reports that collector's pid; after sequential start() calls
\* of which one reported a pid, exactly one collector process is alive and
\* every pid reported is the same.
C12_StartIdempotent ==
  /\ \A c \in Made :
       (calls[c].kind = "start" /\ calls[c].listening # 0) =>
         /\ procs[c].st = "none"
         /\ calls[c].res = "already running"
         /\ calls[c].pid = calls[c].listening
  /\ (OnlyStarts /\ ReportedPid # {}) =>
       /\ Cardinality(AliveProcs) = 1
       /\ \A c, d \in ReportedPid : calls[c].pid = calls[d].pid

\* C13: when start() reports success, the process it launched is alive and
\* answers GET /health; a start() whose process ended without becoming ready
\* has reported failure.
C13_SuccessMeansReady ==
  [][\A c \in 1..MaxCalls :
       (calls[c].res # "started" /\ calls'[c].res = "started") =>
         procs[c].st = "listening"]_vars

NobodyAlive == \A p \in Pids : ~isProcessRunning(p)

StopBegins(c) == calls[c].kind = "none" /\ calls'[c].kind = "stop"

StoppedLive == {c \in Made : calls[c].kind = "stop" /\ calls[c].pc = "done" /\ calls[c].target # 0}

\* C15: a stop() against a live collector ends with that process terminated,
\* and SIGKILL is sent only to a process that had not exited when the bounded
\* wait was over.
C15_GracefulThenKill ==
  \A c \in StoppedLive :
    /\ ~isProcessRunning(calls[c].target)
    /\ calls[c].kill => ~calls[c].exitedInTime

\* C16: when a stop() against a live collector has completed and the process
\* has terminated, there is no PID file (until a later run starts one).
C16_MarkerRemoved ==
  \A c \in StoppedLive :
    (~isProcessRunning(calls[c].target) /\ \A d \in Made : d <= c) => marker = NoMarker

(***************************************************************************)
(* Properties of clear-logs.                                               *)
(***************************************************************************)
Clears == Len(cleared') = Len(cleared) + 1

KnownPaths == {"/ingest", "/health", "/"}

Served(method, path) ==
  \/ method = "POST" /\ path = "/ingest"
  \/ method = "GET" /\ path \in {"/health", "/"}

Done == {r \in 1..MaxReq : reqs[r].st = "done"}

HasAllow(res) == res.headers \cap {"Allow: POST, OPTIONS", "Allow: GET, OPTIONS"} # {}

\* C18: a request whose method is not OPTIONS is answered 405 with an Allow
\* header when its path is /ingest, /health or / and the method is not the one
\* served there, and 404 when its path is none of the three.
C18_Routes ==
  \A r \in Done :
    reqs[r].method # "OPTIONS" =>
      /\ (reqs[r].path \in KnownPaths /\ ~Served(reqs[r].method, reqs[r].path)) =>
           reqs[r].res.status = 405 /\ HasAllow(reqs[r].res)
      /\ reqs[r].path \notin KnownPaths => reqs[r].res.status = 404

\* C19: every response carries the three CORS headers, and an OPTIONS request
\* is answered 204 on every path.
C19_Cors ==
  \A r \in Done :
    /\ corsHeaders \subseteq reqs[r].res.headers
    /\ reqs[r].method = "OPTIONS" => reqs[r].res.status = 204

\* C20: every line of the store is a JSON object whose location, hypothesisId
\* and message are non-empty strings and whose timestamp is a positive number.
C20_PersistedShape ==
  LET lines == Split(Trim(store)) IN
    \A i \in 1..Len(lines) :
      lines[i] # <<>> =>
        LET line == JSONparse(lines[i]) IN
          /\ line.ok /\ line.k = "object"
          /\ \A f \in Required : line.e[f].t = "string" /\ line.e[f].s # ""
          /\ line.e.timestamp.t = "number" /\ line.e.timestamp.n > 0

\* the first line of what was appended to the content old to give the
\* content new, deserialized
AppendedLine(old, new) == JSONparse(Split(Trim(Slice(new, Len(old))))[1])

\* C21: the line appended for an accepted entry carries the timestamp the
\* client supplied, whatever its value (0 included), and the current time only
\* when the entry has no timestamp.
C21_TimestampDefaulting ==
  [][\A r \in 1..MaxReq :
       Handled(r) /\ reqs'[r].res.status = 200 =>
         \E new \in {store'} :
           LET given == parseBody(reqs[r].body).e.timestamp IN
             AppendedLine(store, new).e.timestamp =
               IF given = Undef THEN Num(clock') ELSE given]_vars

\* the handling of request r called appendFileSync and the call threw
AppendFailed(r) == Handled(r) /\ reqs'[r].io \notin {"none", "ok"}

\* C22: a request with a valid entry whose append fails with an I/O error is
\* answered with a 5xx status and leaves the store as it was, and the server
\* goes on to answer the requests that follow.
C22_AppendFailure ==
  [][\A r \in 1..MaxReq :
       AppendFailed(r) =>
         /\ reqs'[r].res.status \in 500..599
         /\ store' = store
         /\ storeExists' = storeExists
         /\ \A q \in 1..MaxReq : reqs[q].st = "reading" /\ q # r => reqs'[q].st = "reading"]_vars

\* C23: over a missing store the analyzer reports zero entries and raises no
\* error; over a store that exists and cannot be read it fails with the
\* exception and prints no report.
C23_MissingOrUnreadable ==
  report # <<>> =>
    /\ ~storeExists =>
         /\ ~report[1].thrown
         /\ report[1].total = 0
         /\ report[2].kind \in {"no entries", "json"}
    /\ (storeExists /\ ~readable) => report = Uncaught

C23_Witness ==
  /\ report # <<>>
  /\ storeExists /\ ~readable
  /\ Len(parseLogFile(storeExists, store)) = MaxLines

\* C24: a run of start-collector that has not returned has waited no longer
\* than the bounded wait of waitForStart: when the wait has elapsed without a
\* sign of readiness the run reports failure, also when a probe of /health
\* gets no answer.
C24_StartReturns ==
  \A c \in 1..MaxCalls :
    (calls[c].kind = "start" /\ calls[c].pc # "done") => calls[c].elapsed <= StartTimeout

\* the content new is the content old with one whole line appended
OneLineAppended(old, new) ==
  /\ Len(new) > Len(old)
  /\ SubSeq(new, 1, Len(old)) = old
  /\ new[Len(new)] = Nl
  /\ Len(Split(Trim(Slice(new, Len(old))))) = 1

\* C25: the handling of a POST /ingest that answers 200 has appended the line
\* of the entry to the store by the time it answers, and a handling that
\* appended nothing does not answer 200.
C25_AppendBefore200 ==
  [][\A r \in 1..MaxReq :
       Handled(r) =>
         IF reqs'[r].res.status = 200
         THEN \E new \in {store'}, line \in {AppendedLine(store, store')} :
                /\ storeExists'
                /\ OneLineAppended(store, new)
                /\ line.ok /\ line.k = "object"
                /\ SameSubmitted(line.e, parseBody(reqs[r].body).e)
         ELSE store' = store /\ storeExists' = storeExists]_vars

C25_Witness ==
  \E r, q \in 1..MaxReq :
    /\ Answered(r, 200) /\ reqs[r].io = "ok"
    /\ reqs[q].st = "done" /\ reqs[q].io = "EACCES"
    /\ Len(FullRead) = 1

(***************************************************************************)
(* Further properties of the tailer.                                       *)
(***************************************************************************)
\* the place of an emitted entry among the entries appended: its line number
\* in the store as long as the store was not truncated
LineOf(ev) ==
  IF \E k \in 1..Len(appended) : appended[k].e = ev.e
  THEN CHOOSE k \in 1..Len(appended) : appended[k].e = ev.e
  ELSE 0

\* C26: as long as the store is not truncated, the tailer emits entries in the
\* order of their lines: of two emissions, the later one is never of an
\* earlier line.
C26_EmitOrder ==
  epoch = 0 =>
    \A i, j \in 1..Len(emitted) : i < j => LineOf(emitted[i]) <= LineOf(emitted[j])

\* the text ends in the middle of a line
EndsMidLine(text) == text # <<>> /\ text[Len(text)] # Nl

\* the text after the last newline
LastPiece(text) == Split(text)[Len(Split(text))]

\* the longest prefix of the text that has no more than n bytes
RECURSIVE BytePrefix(_, _)
BytePrefix(text, n) ==
  IF text = <<>> \/ ByteLen(Head(text)) > n THEN <<>>
  ELSE <<Head(text)>> \o BytePrefix(Tail(text), n - ByteLen(Head(text)))

\* a cycle of readNewContent reads the store
ReadStep == tpc = "read" /\ tpc' = "idle" /\ storeExists

\* the entry of the line of the store the cursor is in
HeldEntry ==
  JSONparse(Split(store)[Len(Split(BytePrefix(store, lastSize)))]).e

\* C27: a cycle that reads a store ending in the middle of a line emits and
\* reports nothing of that line and keeps its text in the buffer; the cycle
\* that reads the rest of a line held in the buffer emits the entry of that
\* line, which is then emitted exactly once, and reports no parse error.
C27_CarryOver ==
  [][/\ (ReadStep /\ EndsMidLine(store)) =>
          /\ buffer' = LastPiece(store)
          /\ \A i \in 1..Len(emitted') : emitted'[i].e # pending.e
     /\ (ReadStep /\ buffer # <<>> /\ ~EndsMidLine(store)) =>
          /\ buffer' = <<>>
          /\ notices' = notices
          /\ Passes(HeldEntry) =>
               Cardinality({i \in 1..Len(emitted') : emitted'[i].e = HeldEntry}) = 1]_vars

\* a cycle of readNewContent takes the size of the store
StatStep == tpc = "idle" /\ storeExists /\ store' = store /\ cleared' = cleared

AllButLast(seq) == SubSeq(seq, 1, Len(seq) - 1)

\* C28: a cycle that finds the store smaller than its cursor sets the cursor
\* to 0 and empties the buffer, goes on to read if the store is not empty and
\* stays in the loop; the read of a cycle whose cursor is 0 and whose buffer
\* is empty takes the content of the store from its first byte.
C28_TruncationReset ==
  [][/\ (StatStep /\ ByteSize(store) < lastSize) =>
          /\ lastSize' = 0
          /\ buffer' = <<>>
          /\ tpc' = IF store # <<>> THEN "read" ELSE "idle"
          /\ UNCHANGED <<emitted, notices>>
     /\ (ReadStep /\ readable /\ lastSize = 0 /\ buffer = <<>>) =>
          LET lines == Split(store)
              out == processNewLines(AllButLast(lines), 1, options)
          IN /\ buffer' = lines[Len(lines)]
             /\ emitted' = emitted \o Events(out.events)
             /\ notices' = notices + out.errors]_vars

C28_Witness ==
  /\ epoch = 1
  /\ tpc = "idle"
  /\ Len(appended) = 2
  /\ \E i, j \in 1..Len(emitted) :
       /\ emitted[i] = appended[1] /\ emitted[i].epoch = 0
       /\ emitted[j] = appended[2] /\ emitted[j].epoch = 1
  /\ notices = 0

\* the bytes of the text at the offsets from..(to - 1)
ByteRange(text, from, to) ==
  SubSeq(BytePrefix(text, to), Len(BytePrefix(text, from)) + 1, Len(BytePrefix(text, to)))

\* C29: the read of a cycle that found the store grown adds to the buffer the
\* bytes of the store from the cursor up to the size the cycle observed, no
\* more and no less, whatever the characters of the entries; the lines it
\* emits and the text it keeps are those of the buffer so extended.
C29_NewBytesOnly ==
  [][ReadStep =>
       LET lines == Split(buffer \o ByteRange(store, lastSize, currentSize))
           out == processNewLines(AllButLast(lines), 1, options)
       IN /\ buffer' = lines[Len(lines)]
          /\ emitted' = emitted \o Events(out.events)
          /\ notices' = notices + out.errors
          /\ lastSize' = currentSize]_vars

Watching == tpc \in {"idle", "read"}

\* a step of the tailer
TailStep == tailVars' # tailVars

\* C30: the tailer waits, emitting nothing, until the store exists and then
\* watches; once watching it never leaves the loop: a cycle that finds the
\* store gone resets the cursor and the buffer, a cycle whose read fails
\* leaves them as they are, and either way the tailer is left watching.
C30_NoTerminalState ==
  [][/\ tpc = "waiting" => emitted = <<>> /\ notices = 0
     /\ (tpc = "waiting" /\ TailStep) => storeExists /\ tpc' = "idle"
     /\ Watching => Watching'
     /\ (Watching /\ TailStep /\ ~storeExists) =>
          /\ lastSize' = 0 /\ buffer' = <<>> /\ tpc' = "idle"
          /\ UNCHANGED <<emitted, notices>>
     /\ (ReadStep /\ ~readable) =>
          /\ tpc' = "idle"
          /\ UNCHANGED <<lastSize, buffer, emitted, notices>>]_vars

C30_Witness ==
  /\ epoch = 1
  /\ storeExists /\ ~readable
  /\ tpc = "idle"
  /\ lastSize < ByteSize(store)
  /\ \E i, j \in 1..Len(emitted) : emitted[i].epoch = 0 /\ emitted[j].epoch = 1

(***************************************************************************)
(* Further properties of the analyzer.                                     *)
(***************************************************************************)
\* the lines of the store that JSON.parse accepts and that match the filter
\* given, all of them when none is given
ParsingLines(filter) ==
  LET lines == Split(Trim(store)) IN
    {i \in 1..Len(lines) :
       \E p \in {JSONparse(lines[i])} :
         /\ lines[i] # <<>>
         /\ p.ok
         /\ filter.t = "string" => (p.k = "object" /\ p.e.hypothesisId = filter)}

\* C31: a run of the analyzer over a readable store ends with a report, and
\* the total of the report is the number of lines that parse and match the
\* filter: a line that does not parse is skipped and ends nothing.
C31_MalformedSkipped ==
  (report # <<>> /\ ~ReadFails(storeExists, readable)) =>
    /\ ~report[1].thrown
    /\ report[1].total = Cardinality(ParsingLines(GivenFilter))

(***************************************************************************)
(* Malformed lines in the tailer.                                          *)
(***************************************************************************)
\* the complete lines a read takes out of the buffer and the new content
TakenLines == AllButLast(Split(buffer \o Slice(store, lastSize)))

\* a line that is not blank and is not the text of a JSON object
Malformed(line) == \E p \in {JSONparse(line)} : line # <<>> /\ (~p.ok \/ p.k = "null")

\* a line that is the text of an entry the filter lets pass
WellFormed(line) == \E p \in {JSONparse(line)} : Printable(p) /\ Passes(p.e)

ParsedEach(lines) == [i \in 1..Len(lines) |-> JSONparse(lines[i]).e]

C33_ExitsAfterSignal ==
  \A p \in Pids : (procs[p].sig /\ procs[p].st # "none") ~> (procs[p].st = "exited")

\* the close has not completed when the timer of shutdown is due
C33_Witness ==
  \E p \in Pids : procs[p].st = "closing" /\ procs[p].grace = ForceExitAfter

\* process p exits by itself, with no SIGKILL of a stop script, before the
\* timer of shutdown is due
CleanExit(p) ==
  /\ procs[p].st = "closing"
  /\ procs[p].grace < ForceExitAfter
  /\ procs'[p].st = "exited"
  /\ calls' = calls

C35_StoreOnlyGrows ==
  [][store' # store =>
       \E old \in {store}, new \in {store'} :
         /\ storeExists'
         /\ OneLineAppended(old, new)
         /\ Nl \notin {new[i] : i \in Len(old) + 1..Len(new) - 1}]_vars

\* two requests have been answered 200 and the store holds their two lines
C35_Witness ==
  /\ \A r \in 1..MaxReq : Answered(r, 200)
  /\ Len(Split(Trim(store))) = MaxReq

(***************************************************************************)
(* Runs of start-collector that overlap.                                   *)
(***************************************************************************)
\* the collectors of this directory that have not exited
Alive == {p \in Pids : isProcessRunning(p)}

\* every run of start-collector has returned, and every collector spawned
\* has listened or exited
AllReturned ==
  /\ \A c \in 1..MaxCalls : calls[c].kind = "start" /\ calls[c].pc = "done"
  /\ \A p \in Pids : ~Busy(p)

\* C36: once every run of start-collector has returned, at most one collector
\* is alive, and the PID file holds the pid of that collector, which listens.
C36_OneCollector ==
  AllReturned =>
    /\ Cardinality(Alive) <= 1
    /\ \A p \in Alive : marker = p /\ procs[p].st = "listening"

\* process p ended on the error event of listen: it exited and no signal was
\* ever sent to it
FailedToBind(p) == procs[p].st = "exited" /\ ~procs[p].sig

\* C37: a collector that fails to bind the port because another collector
\* listens on it leaves the PID file as it was: the file does not hold the
\* pid of the collector that failed.
C37_BindFailureKeepsMarker ==
  \A p \in Pids :
    (FailedToBind(p) /\ port \in {"ours", "collector of another directory"}) => marker # p

(***************************************************************************)
(* The sums of a report.                                                   *)
(***************************************************************************)
\* the sum of the values the map m has at the keys in S
RECURSIVE SumOver(_, _)
SumOver(m, S) ==
  IF S = {} THEN 0
  ELSE LET k == CHOOSE x \in S : TRUE IN m[k] + SumOver(m, S \ {k})

SumOf(m) == SumOver(m, DOMAIN m)

====
